---- MODULE Spec2Model ----
(***************************************************************************)
(* Website Summarizer API (src/main.py): the summarize request pipeline    *)
(* (configuration check, page fetch, content extraction, provider call),   *)
(* the health endpoint, and the pure text functions they are built from.   *)
(*                                                                         *)
(* Python strings are sequences of one-character strings.  An optional     *)
(* value is a sequence of length 0 (None) or 1.                            *)
(***************************************************************************)
EXTENDS Integers, Sequences, FiniteSets, TLC

VARIABLES
    OPENAI_API_KEY,  \* module global, main.py:17
    openai_client,   \* module global, main.py:22-30
    pc,              \* per request: position of the handler summarize_website
    req,             \* per request: the validated SummarizeRequest
    fetched,         \* per request: the reply the page fetch got (option)
    website_data,    \* per request: local website_data of the handler (option)
    sent,            \* per request: arguments of the provider call made (option)
    provided,        \* per request: the reply the provider call got (option)
    caught,          \* per request: the exception caught at main.py:221 (option)
    response,        \* per request: the HTTP response (option)
    events,          \* per request: the stage events so far, in order
    health,          \* last response of GET /api/v1/health (option)
    doc,             \* extraction study: the parsed document under construction
    page,            \* extraction study: result of extracting doc (option)
    given,           \* summarizer study: the arguments of summarize
    prompt           \* summarizer study: what summarize built from them (option)

serverVars == <<OPENAI_API_KEY, openai_client, pc, req, fetched, website_data,
                sent, provided, caught, response, events, health>>
extractVars == <<doc, page>>
summarizeVars == <<given, prompt>>
vars == <<serverVars, extractVars, summarizeVars>>

----------------------------------------------------------------------------
(* Bounds of the model *)

NumRequests == 2     \* concurrent summarize requests
MaxNodes == 2        \* elements of a generated document
MaxOver == 2         \* how far generated contents reach past the cap

(* Program constants *)

MAX_CONTENT_LENGTH == 8000
DEFAULT_SUMMARY_LENGTH == 200

None == <<>>
Some(x) == <<x>>

----------------------------------------------------------------------------
(* Python string functions *)

WHITESPACE == {" ", "\t", "\n"}

IsSpace(c) == c \in WHITESPACE

RECURSIVE LStrip(_)
LStrip(s) ==
    IF s = <<>> THEN <<>>
    ELSE IF IsSpace(Head(s)) THEN LStrip(Tail(s)) ELSE s

RECURSIVE RStrip(_)
RStrip(s) ==
    IF s = <<>> THEN <<>>
    ELSE IF IsSpace(s[Len(s)]) THEN RStrip(SubSeq(s, 1, Len(s) - 1)) ELSE s

\* str.strip()
Strip(s) == RStrip(LStrip(s))

\* re.sub(r'\s+', ' ', s): every maximal run of whitespace becomes one space
RECURSIVE CollapseWhitespace(_)
CollapseWhitespace(s) ==
    IF s = <<>> THEN <<>>
    ELSE IF IsSpace(Head(s))
         THEN <<" ">> \o CollapseWhitespace(LStrip(s))
         ELSE <<Head(s)>> \o CollapseWhitespace(Tail(s))

\* str.split() with no argument: the maximal runs of non-whitespace
RECURSIVE SplitFrom(_, _)
SplitFrom(s, word) ==
    IF s = <<>> THEN (IF word = <<>> THEN <<>> ELSE <<word>>)
    ELSE IF IsSpace(Head(s))
         THEN (IF word = <<>> THEN <<>> ELSE <<word>>) \o SplitFrom(Tail(s), <<>>)
         ELSE SplitFrom(Tail(s), Append(word, Head(s)))

Split(s) == SplitFrom(s, <<>>)

\* sep.join(parts)
RECURSIVE Join(_, _)
Join(sep, parts) ==
    IF parts = <<>> THEN <<>>
    ELSE IF Len(parts) = 1 THEN parts[1]
    ELSE parts[1] \o sep \o Join(sep, Tail(parts))

----------------------------------------------------------------------------
(* The parsed document (BeautifulSoup tree).  A document is the sequence   *)
(* of its elements in document order; an element has a tag, a class set,   *)
(* an id, the text it directly holds and the index of its parent element   *)
(* (0 at top level).                                                       *)

UNWANTED == {"script", "style", "nav", "footer", "header"}

\* the selector list with article tried before main
main_selectorsArticleFirst == <<"article", "main", ".content", "#content",
                                ".post-content", ".entry-content">>

main_selectors == <<"main", "article", ".content", "#content",
                    ".post-content", ".entry-content">>

\* soup.select_one's match test for the selectors in use
Matches(selector, el) ==
    CASE selector = "main" -> el.tag = "main"
      [] selector = "article" -> el.tag = "article"
      [] selector = ".content" -> "content" \in el.cls
      [] selector = "#content" -> el.id = "content"
      [] selector = ".post-content" -> "post-content" \in el.cls
      [] selector = ".entry-content" -> "entry-content" \in el.cls
      [] OTHER -> FALSE

\* BeautifulSoup(response.content, 'html.parser'): the tree, all of it live
Soup(d) == [els |-> d, live |-> 1..Len(d)]

RECURSIVE IsInside(_, _, _)
\* element i is element a or a descendant of it
IsInside(d, i, a) ==
    IF i = 0 THEN FALSE
    ELSE IF i = a THEN TRUE
    ELSE IsInside(d, d[i].parent, a)

\* for element in soup([...unwanted...]): element.decompose()
\* every element of an unwanted kind leaves the tree with all below it
DecomposeUnwanted(soup) ==
    [soup EXCEPT !.live =
        {i \in soup.live :
            ~\E a \in soup.live : soup.els[a].tag \in UNWANTED
                                  /\ IsInside(soup.els, i, a)}]

\* the first of a set of elements in document order, 0 (None) if there is none
FirstOf(hits) ==
    IF hits = {} THEN 0 ELSE CHOOSE i \in hits : \A j \in hits : i <= j

\* soup.find(tag)
Find(soup, tag) == FirstOf({i \in soup.live : soup.els[i].tag = tag})

\* soup.select_one(selector)
SelectOne(soup, selector) ==
    FirstOf({i \in soup.live : Matches(selector, soup.els[i])})

RECURSIVE StringsFrom(_, _, _)
\* the text nodes of element a and its descendants, in document order
StringsFrom(soup, a, i) ==
    IF i > Len(soup.els) THEN <<>>
    ELSE (IF i \in soup.live /\ IsInside(soup.els, i, a) /\ soup.els[i].text # <<>>
          THEN <<soup.els[i].text>> ELSE <<>>)
         \o StringsFrom(soup, a, i + 1)

RECURSIVE StripEach(_)
\* the strip=True filter of get_text: strip every string, drop the empty ones
StripEach(strings) ==
    IF strings = <<>> THEN <<>>
    ELSE (IF Strip(Head(strings)) = <<>> THEN <<>> ELSE <<Strip(Head(strings))>>)
         \o StripEach(Tail(strings))

\* element.get_text()
GetText(soup, a) == Join(<<>>, StringsFrom(soup, a, a))

\* element.get_text(separator=' ', strip=True)
GetTextStripped(soup, a) == Join(<<" ">>, StripEach(StringsFrom(soup, a, a)))

----------------------------------------------------------------------------
(* WebScraper: extraction from the parsed document *)

NO_TITLE == <<"N", "o", " ", "t", "i", "t", "l", "e", " ", "f", "o", "u", "n", "d">>

RECURSIVE FirstSelected(_, _, _)
\* the loop of _extract_main_content: the element of the first selector, from
\* position k on, that selects one; 0 when the loop ends without a break
FirstSelected(soup, selectors, k) ==
    IF k > Len(selectors) THEN 0
    ELSE IF SelectOne(soup, selectors[k]) # 0 THEN SelectOne(soup, selectors[k])
    ELSE FirstSelected(soup, selectors, k + 1)

\* WebScraper._extract_main_content(soup)
ExtractMainContent(soup) ==
    LET element == FirstSelected(soup, main_selectors, 1)
        selected == IF element # 0 THEN GetTextStripped(soup, element) ELSE <<>>
        body == Find(soup, "body")
        main_content ==
            IF selected = <<>>
            THEN (IF body # 0 THEN GetTextStripped(soup, body) ELSE <<>>)
            ELSE selected
    IN Strip(CollapseWhitespace(main_content))

\* title_text of extract_content
ExtractTitle(soup) ==
    LET title == Find(soup, "title")
    IN IF title # 0 THEN Strip(GetText(soup, title)) ELSE NO_TITLE

\* len(main_content.split(' ')): an empty text counts one word
WordCountSplitOnSpace(text) == IF text = <<>> THEN 1 ELSE Len(Split(text))

\* len(main_content.split())
WordCount(text) == Len(Split(text))

\* the dict extract_content returns for the page it fetched: parse, drop the
\* unwanted elements, then take the title and the main content
ExtractPage(url, d) ==
    LET soup == DecomposeUnwanted(Soup(d))
        main_content == ExtractMainContent(soup)
    IN [url |-> url,
        title |-> ExtractTitle(soup),
        content |-> main_content,
        word_count |-> WordCount(main_content)]

----------------------------------------------------------------------------
(* Generated documents *)

Element(tag, cls, id) == [tag |-> tag, cls |-> cls, id |-> id]

ElementKinds ==
    { Element("title", {}, ""), Element("body", {}, ""),
      Element("header", {}, ""),
      Element("main", {}, ""), Element("article", {}, ""),
      Element("div", {"content"}, ""), Element("div", {}, "content"),
      Element("div", {"post-content"}, ""), Element("div", {"entry-content"}, "") }

Texts == { <<>>, <<"a">>, <<" ">>, <<" ", "b", "\n", "\t", "c", " ">> }

\* where the parser can hang the next element: top level, or below the last
\* element or one of its ancestors
OpenElements(d) == {0} \cup {a \in 1..Len(d) : IsInside(d, Len(d), a)}

URL == "http://site/"

ServerIdle ==
    /\ OPENAI_API_KEY = <<>>
    /\ openai_client = None
    /\ pc = <<>>
    /\ req = <<>>
    /\ fetched = <<>>
    /\ website_data = <<>>
    /\ sent = <<>>
    /\ provided = <<>>
    /\ caught = <<>>
    /\ response = <<>>
    /\ events = <<>>
    /\ health = None

ExtractIdle == doc = <<>> /\ page = None

SummarizeIdle == given = <<>> /\ prompt = None

ExtractInit == ServerIdle /\ ExtractIdle /\ SummarizeIdle

\* BeautifulSoup(response.content, 'html.parser') meets one more element
ParseElement(kind, text, parent) ==
    /\ page = None
    /\ Len(doc) < MaxNodes
    /\ doc' = Append(doc, [tag |-> kind.tag, cls |-> kind.cls, id |-> kind.id,
                           text |-> text, parent |-> parent])
    /\ UNCHANGED <<page, serverVars, summarizeVars>>

\* the rest of extract_content on the parsed document
ExtractContent ==
    /\ page = None
    /\ page' = Some(ExtractPage(URL, doc))
    /\ UNCHANGED <<doc, serverVars, summarizeVars>>

ExtractNext ==
    \/ \E kind \in ElementKinds, text \in Texts, parent \in OpenElements(doc) :
          ParseElement(kind, text, parent)
    \/ ExtractContent

SpecExtract == ExtractInit /\ [][ExtractNext]_vars

----------------------------------------------------------------------------
(* Python values of the request handler *)

\* truth value of a string or an optional object: "" and None are false
Truthy(v) == v # <<>>

\* a and b
PyAnd(a, b) == IF Truthy(a) THEN b ELSE a

\* exceptions; a message is a sequence of text pieces
HTTPException(status_code, detail) ==
    [type |-> "HTTPException", status_code |-> status_code, detail |-> detail]

Raised(type, message) == [type |-> type, message |-> message]

\* str(e): starlette's HTTPException prints "<status_code>: <detail>", the
\* others print their message
Str(e) ==
    IF e.type = "HTTPException" THEN <<ToString(e.status_code), ": ">> \o e.detail
    ELSE e.message

KEY_NOT_CONFIGURED ==
    <<"OpenAI API key not configured. Please set OPENAI_API_KEY in your .env file">>

CLIENT_NOT_INITIALIZED ==
    <<"OpenAI client not initialized. Please check your OpenAI installation and API key">>

\* results of a stage: a value or a raised exception
Ok(value) == [ok |-> TRUE, value |-> value]
Fail(exception) == [ok |-> FALSE, exception |-> exception]

----------------------------------------------------------------------------
(* Startup, main.py:17-30 *)

EnvKeys == { <<>>, <<"s", "k">> }

ClientInits == {"created", "ImportError", "Exception"}

\* the try block that sets openai_client
InitClient(key, outcome) ==
    IF Truthy(key) /\ outcome = "created" THEN Some([api_key |-> key]) ELSE None

----------------------------------------------------------------------------
(* The stages of summarize_website *)

\* the two checks at the top of the handler
CheckConfigured(key, client) ==
    IF ~Truthy(key) THEN Fail(HTTPException(500, KEY_NOT_CONFIGURED))
    ELSE IF ~Truthy(client) THEN Fail(HTTPException(500, CLIENT_NOT_INITIALIZED))
    ELSE Ok(TRUE)

\* ContentSummarizer.__init__
SummarizerInit(key, client) ==
    IF ~Truthy(key) THEN Fail(Raised("ValueError", <<"OpenAI API key not configured">>))
    ELSE IF ~Truthy(client)
         THEN Fail(Raised("ValueError", <<"OpenAI client not initialized properly">>))
    ELSE Ok([client |-> client[1]])

\* the handler going on to the fetch without looking at key or client
BeforeFetchUnchecked(key, client) == Ok([client |-> client])

\* everything the handler does before scraper.extract_content is called
BeforeFetch(key, client) ==
    IF CheckConfigured(key, client).ok THEN SummarizerInit(key, client)
    ELSE CheckConfigured(key, client)

\* SummarizeRequest: summary_length defaults to 200 when the body omits it,
\* and may be null
SummarizeRequest(url, body_length) ==
    [url |-> url,
     summary_length |-> IF body_length = "omitted" THEN Some(DEFAULT_SUMMARY_LENGTH)
                        ELSE body_length]

\* response.raise_for_status()
RaisesForStatus(status) == 400 <= status /\ status < 600

\* extract_content swallowing a failed fetch and returning an empty page
ExtractContentOfSwallowing(url, reply) ==
    IF reply.kind = "response" /\ ~RaisesForStatus(reply.status)
    THEN Ok(ExtractPage(url, reply.doc))
    ELSE Ok(ExtractPage(url, <<>>))

\* extract_content letting the exception of the fetch through unwrapped
ExtractContentOfReraising(url, reply) ==
    IF reply.kind # "response" THEN Fail(Raised(reply.kind, <<reply.kind>>))
    ELSE IF RaisesForStatus(reply.status) THEN Fail(Raised("HTTPError", <<"HTTPError">>))
    ELSE Ok(ExtractPage(url, reply.doc))

\* WebScraper.extract_content once session.get has returned or raised
ExtractContentOf(url, reply) ==
    IF reply.kind # "response"
    THEN Fail(Raised("Exception", <<"Failed to scrape ", url, ": ", reply.kind>>))
    ELSE IF RaisesForStatus(reply.status)
    THEN Fail(Raised("Exception", <<"Failed to scrape ", url, ": ", "HTTPError">>))
    ELSE Ok(ExtractPage(url, reply.doc))

\* content[-MAX_CONTENT_LENGTH:]: the end of the content kept, not its start
TruncateContentKeepingEnd(text) ==
    IF Len(text) > MAX_CONTENT_LENGTH
    THEN SubSeq(text, Len(text) - MAX_CONTENT_LENGTH + 1, Len(text))
    ELSE text

\* content[:MAX_CONTENT_LENGTH] when the content is longer than that
TruncateContent(text) ==
    IF Len(text) > MAX_CONTENT_LENGTH THEN SubSeq(text, 1, MAX_CONTENT_LENGTH)
    ELSE text

\* ContentSummarizer.summarize up to the provider call: the arguments of
\* chat.completions.create, or the exception raised while building them
\* (max_length * 2 with max_length None)
PrepareCall(text, max_length) ==
    IF max_length = None
    THEN Fail(Raised("Exception", <<"Failed to summarize content: ", "TypeError">>))
    ELSE Ok([content |-> TruncateContent(text),
             target_words |-> max_length[1],
             max_tokens |-> max_length[1] * 2])

\* ContentSummarizer.summarize once the provider call has returned or raised
SummaryOf(reply) ==
    IF reply.kind # "completion"
    THEN Fail(Raised("Exception", <<"Failed to summarize content: ", reply.kind>>))
    ELSE IF reply.content = None
    THEN Fail(Raised("Exception", <<"Failed to summarize content: ", "AttributeError">>))
    ELSE Ok(Strip(reply.content[1]))

\* the SummarizeResponse the handler returns
SummarizeResponse(data, summary) ==
    [status |-> 200,
     body |-> [url |-> data.url, title |-> data.title, summary |-> summary,
               word_count |-> data.word_count]]

\* an except clause that answers 502 for the failures of the outbound calls
HandlerExceptByCause(e) ==
    [status |-> IF e.type = "HTTPException" THEN e.status_code ELSE 502,
     body |-> [detail |-> Str(e)]]

\* except Exception as e: raise HTTPException(status_code=500, detail=str(e))
HandlerExcept(e) == [status |-> 500, body |-> [detail |-> Str(e)]]

\* health_check looking at the key alone
HealthResponseKeyOnly(key, client) ==
    [status |-> "healthy", openai_configured |-> Truthy(key)]

\* health_check
HealthResponse(key, client) ==
    [status |-> "healthy", openai_configured |-> Truthy(PyAnd(key, client))]

----------------------------------------------------------------------------
(* The server: concurrent summarize requests and the health endpoint *)

Requests == 1..NumRequests

URLs == {"http://a/", "http://b/"}

BodyLengths == {"omitted", None}

El(tag, text, parent) ==
    [tag |-> tag, cls |-> {}, id |-> "", text |-> text, parent |-> parent]

\* pages the fetch can return
PageDocs ==
    { <<>>,
      << El("title", <<" ", "a">>, 0), El("body", <<" ", "b", "\n", "\t", "c", " ">>, 0) >>,
      << El("header", <<"a">>, 0), El("article", <<"a">>, 0) >> }

FetchReplies ==
    [kind : {"response"}, status : {200}, doc : PageDocs]
    \cup [kind : {"response"}, status : {304, 404}, doc : {<<>>}]
    \cup [kind : {"Timeout", "ConnectionError"}]

ProviderReplies ==
    [kind : {"completion"}, content : {None, Some(<<" ", "x", " ", "y", " ", "z", "\n">>)}]
    \cup [kind : {"APIError"}]

\* a local variable of one request's handler invocation takes a value
SetLocal(f, r, v) == [f EXCEPT ![r] = v]

\* website_data kept in a module global that every invocation reads
StoreWebsiteDataGlobally(f, r, data) == [q \in DOMAIN f |-> Some(data)]

\* website_data = scraper.extract_content(...): a local of the invocation
StoreWebsiteData(f, r, data) == [f EXCEPT ![r] = Some(data)]

ServerInit ==
    /\ OPENAI_API_KEY \in EnvKeys
    /\ \E outcome \in ClientInits : openai_client = InitClient(OPENAI_API_KEY, outcome)
    /\ pc = [r \in Requests |-> "new"]
    /\ req = [r \in Requests |-> None]
    /\ fetched = [r \in Requests |-> None]
    /\ website_data = [r \in Requests |-> None]
    /\ sent = [r \in Requests |-> None]
    /\ provided = [r \in Requests |-> None]
    /\ caught = [r \in Requests |-> None]
    /\ response = [r \in Requests |-> None]
    /\ events = [r \in Requests |-> <<>>]
    /\ health = None

Init == ServerInit /\ ExtractIdle /\ SummarizeIdle

globals == <<OPENAI_API_KEY, openai_client>>

\* the handler ends at its except clause
RaiseToClient(r, e) ==
    /\ caught' = SetLocal(caught, r, Some(e))
    /\ response' = SetLocal(response, r, Some(HandlerExcept(e)))
    /\ pc' = SetLocal(pc, r, "done")

\* POST /api/v1/summarize arrives: the handler runs up to the page fetch
Receive(r, url, body_length) ==
    /\ pc[r] = "new"
    /\ req' = SetLocal(req, r, Some(SummarizeRequest(url, body_length)))
    /\ LET before == BeforeFetch(OPENAI_API_KEY, openai_client)
       IN IF before.ok
          THEN /\ events' = SetLocal(events, r, Append(events[r], "fetch"))
               /\ pc' = SetLocal(pc, r, "fetch")
               /\ UNCHANGED <<caught, response>>
          ELSE /\ RaiseToClient(r, before.exception)
               /\ UNCHANGED events
    /\ UNCHANGED <<globals, fetched, website_data, sent, provided, health,
                   extractVars, summarizeVars>>

\* session.get returns or raises: the handler runs up to the provider call
FetchReturns(r, reply) ==
    /\ pc[r] = "fetch"
    /\ fetched' = SetLocal(fetched, r, Some(reply))
    /\ LET scraped == ExtractContentOf(req[r][1].url, reply)
           call == PrepareCall(scraped.value.content, req[r][1].summary_length)
           parsed == IF reply.kind = "response" /\ ~RaisesForStatus(reply.status)
                     THEN <<"extract">> ELSE <<>>
       IN IF ~scraped.ok
          THEN /\ RaiseToClient(r, scraped.exception)
               /\ events' = SetLocal(events, r, events[r] \o parsed)
               /\ UNCHANGED <<website_data, sent>>
          ELSE /\ website_data' = StoreWebsiteData(website_data, r, scraped.value)
               /\ IF call.ok
                  THEN /\ sent' = SetLocal(sent, r, Some(call.value))
                       /\ events' = SetLocal(events, r,
                                             events[r] \o parsed \o <<"summarize">>)
                       /\ pc' = SetLocal(pc, r, "provider")
                       /\ UNCHANGED <<caught, response>>
                  ELSE /\ RaiseToClient(r, call.exception)
                       /\ events' = SetLocal(events, r, events[r] \o parsed)
                       /\ UNCHANGED sent
    /\ UNCHANGED <<globals, req, provided, health, extractVars, summarizeVars>>

\* chat.completions.create returns or raises: the handler runs to its end
ProviderReturns(r, reply) ==
    /\ pc[r] = "provider"
    /\ provided' = SetLocal(provided, r, Some(reply))
    /\ LET summary == SummaryOf(reply)
       IN IF summary.ok
          THEN /\ response' = SetLocal(response, r,
                       Some(SummarizeResponse(website_data[r][1], summary.value)))
               /\ pc' = SetLocal(pc, r, "done")
               /\ UNCHANGED caught
          ELSE RaiseToClient(r, summary.exception)
    /\ UNCHANGED <<globals, req, fetched, website_data, sent, events, health,
                   extractVars, summarizeVars>>

\* GET /api/v1/health
HealthCheck ==
    /\ health' = Some(HealthResponse(OPENAI_API_KEY, openai_client))
    /\ UNCHANGED <<globals, pc, req, fetched, website_data, sent, provided, caught,
                   response, events, extractVars, summarizeVars>>

Next ==
    \/ \E r \in Requests, url \in URLs, body_length \in BodyLengths :
          Receive(r, url, body_length)
    \/ \E r \in Requests, reply \in FetchReplies : FetchReturns(r, reply)
    \/ \E r \in Requests, reply \in ProviderReplies : ProviderReturns(r, reply)
    \/ HealthCheck

Spec == Init /\ [][Next]_vars

----------------------------------------------------------------------------
(* The summarizer on contents around the cap *)

\* a text of the given length, all "a" but for one marked position (0: none)
Text(length, mark, char) == [i \in 1..length |-> IF i = mark THEN char ELSE "a"]

TextLengths == {0, 1, 2} \cup ((MAX_CONTENT_LENGTH - 1)..(MAX_CONTENT_LENGTH + MaxOver))

MarkPositions == {0, 1, 2} \cup ((MAX_CONTENT_LENGTH - 1)..(MAX_CONTENT_LENGTH + MaxOver))

LongTexts ==
    {Text(length, mark, char) :
        length \in TextLengths,
        mark \in MarkPositions,
        char \in {"b", " "}}

SummarizeInit ==
    /\ ServerIdle /\ ExtractIdle
    /\ given \in [content : LongTexts, max_length : {None, Some(50), Some(200)}]
    /\ prompt = None

\* summarizer.summarize(content, max_length) builds the provider call
Summarize ==
    /\ prompt = None
    /\ prompt' = Some(PrepareCall(given.content, given.max_length))
    /\ UNCHANGED <<given, serverVars, extractVars>>

SummarizeNext == Summarize

SpecSummarize == SummarizeInit /\ [][SummarizeNext]_vars

----------------------------------------------------------------------------
(* Claims about the server, under Spec *)

Done(r) == pc[r] = "done"

CredentialMissing == OPENAI_API_KEY = <<>> \/ openai_client = None

FetchFailed(r) ==
    /\ fetched[r] # None
    /\ \/ fetched[r][1].kind \in {"Timeout", "ConnectionError"}
       \/ fetched[r][1].kind = "response" /\ fetched[r][1].status \in 400..599

ProviderFailed(r) ==
    /\ provided[r] # None
    /\ \/ provided[r][1].kind # "completion"
       \/ provided[r][1].content = None

ProviderSucceeded(r) == provided[r] # None /\ ~ProviderFailed(r)

RECURSIVE Contains(_, _)
Contains(message, piece) ==
    message # <<>> /\ (Head(message) = piece \/ Contains(Tail(message), piece))

ConfigurationMessages ==
    { "OpenAI API key not configured. Please set OPENAI_API_KEY in your .env file",
      "OpenAI client not initialized. Please check your OpenAI installation and API key",
      "OpenAI API key not configured",
      "OpenAI client not initialized properly" }

IsConfigurationError(resp) ==
    /\ resp.status = 500
    /\ \E m \in ConfigurationMessages : Contains(resp.body.detail, m)

\* C1: with the provider credential missing (key empty or client not
\* initialised) every summarize request ends in an error response that
\* indicates a configuration failure, and neither the page fetch nor the
\* provider call is made during it.
C1_MissingCredentialNoNetwork ==
    CredentialMissing =>
        \A r \in Requests :
            /\ pc[r] \in {"new", "done"}
            /\ events[r] = <<>> /\ fetched[r] = None
            /\ sent[r] = None /\ provided[r] = None
            /\ Done(r) => IsConfigurationError(response[r][1])

\* a request has ended while the key was set but the client was not created
C1_Witness ==
    /\ OPENAI_API_KEY # <<>> /\ openai_client = None
    /\ \E r \in Requests : Done(r) /\ response[r][1].status = 500

Stages == <<"fetch", "extract", "summarize">>

IsPrefix(s, t) == Len(s) <= Len(t) /\ s = SubSeq(t, 1, Len(s))

StagesInOrder ==
    \A r \in Requests :
        /\ IsPrefix(events[r], Stages)
        /\ Contains(events[r], "summarize") =>
              fetched[r] # None /\ ~FetchFailed(r) /\ website_data[r] # None
        /\ FetchFailed(r) => Done(r) /\ events[r] = <<"fetch">>
        /\ ProviderFailed(r) => Done(r)

\* C2: within one request the stage events form a prefix of fetch, extract,
\* summarize (so each happens at most once), the provider call comes only
\* after the fetch and the extraction of that request succeeded, events are
\* only ever added, and after a failed stage nothing more is attempted.
C2_StagesOnceInOrder ==
    /\ []StagesInOrder
    /\ [][\A r \in Requests :
             /\ IsPrefix(events[r], events'[r])
             /\ Done(r) => events'[r] = events[r] /\ pc'[r] = "done"]_vars

\* a request went through all three stages and its provider call failed
C2_Witness ==
    \E r \in Requests : Done(r) /\ events[r] = Stages /\ ProviderFailed(r)

\* C3: every request ends either in a success response carrying url, title,
\* summary and word_count, or in an HTTP 500 carrying only a detail message;
\* whichever stage fails, the status is 500 and nothing obtained by earlier
\* stages is returned.
C3_SuccessOrFlat500 ==
    \A r \in Requests :
        /\ Done(r) <=> response[r] # None
        /\ Done(r) =>
              IF ProviderSucceeded(r)
              THEN /\ response[r][1].status = 200
                   /\ DOMAIN response[r][1].body = {"url", "title", "summary", "word_count"}
              ELSE /\ response[r][1].status = 500
                   /\ DOMAIN response[r][1].body = {"detail"}

\* a request whose page was extracted (it has a title) and whose provider call
\* failed has ended with a 500
C3_Witness ==
    \E r \in Requests :
        /\ Done(r) /\ ProviderFailed(r)
        /\ website_data[r] # None /\ website_data[r][1].title # NO_TITLE
        /\ response[r][1].status = 500

\* the words of a text: the positions where a run of non-whitespace starts
CountWords(text) ==
    Cardinality({i \in 1..Len(text) :
                    ~IsSpace(text[i]) /\ (i = 1 \/ IsSpace(text[i - 1]))})

\* C6: in every success response word_count is the number of
\* whitespace-separated tokens of the content extracted from the page (0 for
\* empty content), whatever summary the provider returned.
C6_WordCountOfSource ==
    \A r \in Requests :
        (Done(r) /\ response[r][1].status = 200) =>
            response[r][1].body.word_count = CountWords(website_data[r][1].content)

\* a success response whose source content has two words and whose summary
\* has three
C6_Witness ==
    \E r \in Requests :
        /\ Done(r) /\ response[r][1].status = 200
        /\ response[r][1].body.word_count = 2
        /\ CountWords(response[r][1].body.summary) = 3

\* C7 as stated: a failed fetch surfaces as an error of its own kind, not as
\* a generic exception, and of another kind than a provider-call failure.
C7_FetchErrorKind ==
    \A r \in Requests :
        FetchFailed(r) =>
            /\ caught[r] # None
            /\ caught[r][1].type # "Exception"
            /\ \A q \in Requests :
                  ProviderFailed(q) => caught[q][1].type # caught[r][1].type

\* C7 amended: a fetch timeout, network error or 4xx/5xx response surfaces as
\* a generic Exception, the kind a provider-call failure has too, whose
\* message is "Failed to scrape <url>: <cause>"; it differs from a
\* provider-call failure only by that message prefix (the provider's is
\* "Failed to summarize content: "), and the message is the response detail.
C7_GenericExceptionWithPrefix ==
    \A r \in Requests :
        /\ FetchFailed(r) =>
              /\ caught[r] # None
              /\ caught[r][1].type = "Exception"
              /\ Len(caught[r][1].message) = 4
              /\ SubSeq(caught[r][1].message, 1, 3)
                    = <<"Failed to scrape ", req[r][1].url, ": ">>
              /\ caught[r][1].message[4] =
                    (IF fetched[r][1].kind = "response" THEN "HTTPError"
                     ELSE fetched[r][1].kind)
              /\ response[r][1].body.detail = caught[r][1].message
        /\ ProviderFailed(r) =>
              /\ caught[r] # None
              /\ caught[r][1].type = "Exception"
              /\ caught[r][1].message[1] = "Failed to summarize content: "

\* one request ended on a fetch timeout and another on a provider failure
C7_Witness ==
    \E r, q \in Requests :
        /\ Done(r) /\ FetchFailed(r) /\ fetched[r][1].kind = "Timeout"
        /\ Done(q) /\ ProviderFailed(q)

\* the response request r gets when it runs alone with the replies it got
SoloResponse(r) ==
    LET before == BeforeFetch(OPENAI_API_KEY, openai_client)
        scraped == ExtractContentOf(req[r][1].url, fetched[r][1])
        call == PrepareCall(scraped.value.content, req[r][1].summary_length)
        summary == SummaryOf(provided[r][1])
    IN IF ~before.ok THEN HandlerExcept(before.exception)
       ELSE IF ~scraped.ok THEN HandlerExcept(scraped.exception)
       ELSE IF ~call.ok THEN HandlerExcept(call.exception)
       ELSE IF ~summary.ok THEN HandlerExcept(summary.exception)
       ELSE SummarizeResponse(scraped.value, summary.value)

requestState(r) ==
    <<pc[r], req[r], fetched[r], website_data[r], sent[r], provided[r],
      caught[r], response[r], events[r]>>

\* C9: under every interleaving of concurrent requests at their blocking
\* calls, a step changes the state of at most one request and never the
\* shared credential and client, and each request's response is the one it
\* gets running alone with the same fetch and provider replies.
C9_RequestsIndependent ==
    /\ [](\A r \in Requests : Done(r) => response[r][1] = SoloResponse(r))
    /\ [][/\ OPENAI_API_KEY' = OPENAI_API_KEY
          /\ openai_client' = openai_client
          /\ \A r, q \in Requests :
                (r # q /\ requestState(r)' # requestState(r))
                    => requestState(q)' = requestState(q)]_vars

\* a request has succeeded while another, with a different page, is still
\* waiting for the provider
C9_Witness ==
    \E r, q \in Requests :
        /\ Done(r) /\ response[r][1].status = 200
        /\ pc[q] = "provider"
        /\ website_data[q] # website_data[r]

\* C10: health reports openai_configured exactly when credential and client
\* are both present, which is exactly when a summarize request passes the
\* configuration check and goes on to the fetch; it never reports configured
\* while a request fails with a configuration error, nor the reverse.
C10_HealthAgreesWithSummarize ==
    health # None =>
        /\ health[1].openai_configured <=> ~CredentialMissing
        /\ \A r \in Requests :
              pc[r] # "new" =>
                  /\ health[1].openai_configured <=> events[r] # <<>>
                  /\ ~health[1].openai_configured <=>
                        (Done(r) /\ events[r] = <<>>
                         /\ IsConfigurationError(response[r][1]))

\* health has answered and a request has ended while the key was set but the
\* client was not created
C10_Witness ==
    /\ OPENAI_API_KEY # <<>> /\ openai_client = None
    /\ health # None /\ ~health[1].openai_configured
    /\ \E r \in Requests : Done(r)

----------------------------------------------------------------------------
(* Claims about extraction, under SpecExtract *)

\* the document as extraction sees it once the unwanted elements are gone
Cleaned == DecomposeUnwanted(Soup(doc))

PriorityOrder == <<"main", "article", ".content", "#content",
                   ".post-content", ".entry-content">>

\* positions in the priority order whose selector matches some element
MatchingRanks ==
    {k \in 1..Len(PriorityOrder) :
        \E i \in Cleaned.live : Matches(PriorityOrder[k], Cleaned.els[i])}

\* the first element in document order matched by the best-ranked selector
BestMatch ==
    LET k == CHOOSE r \in MatchingRanks : \A q \in MatchingRanks : r <= q
    IN FirstOf({i \in Cleaned.live : Matches(PriorityOrder[k], Cleaned.els[i])})

\* the normalized text of an element of the cleaned document
TextOf(i) == Strip(CollapseWhitespace(GetTextStripped(Cleaned, i)))

BodyText ==
    LET bodies == {i \in Cleaned.live : Cleaned.els[i].tag = "body"}
    IN IF bodies = {} THEN <<>> ELSE TextOf(FirstOf(bodies))

\* C4 as stated: the content is the text of the element matched by the first
\* selector in priority order that matches any element, and the body text is
\* used only when none of the six selectors matched.
C4_FirstMatchOrBodyOnlyIfNoMatch ==
    page # None =>
        IF MatchingRanks # {}
        THEN page[1].content = TextOf(BestMatch)
        ELSE page[1].content = BodyText

\* C4 amended: the content is the text of the element matched by the first
\* selector in priority order that matches any element whenever that text is
\* not empty; the body text (empty without a body) is used when no selector
\* matched or when that first matched element has no text.
C4_FirstMatchUnlessEmpty ==
    page # None =>
        IF MatchingRanks # {} /\ TextOf(BestMatch) # <<>>
        THEN page[1].content = TextOf(BestMatch)
        ELSE page[1].content = BodyText

\* a document whose article comes before its main, both with text, the two
\* texts different: the content is the main text
C4_Witness ==
    /\ page # None
    /\ \E m, a \in Cleaned.live :
          /\ a < m
          /\ Cleaned.els[m].tag = "main" /\ Cleaned.els[a].tag = "article"
          /\ TextOf(m) # <<>> /\ TextOf(a) # <<>> /\ TextOf(m) # TextOf(a)
          /\ page[1].content = TextOf(m)

TitleElements == {i \in 1..Len(doc) : doc[i].tag = "title"}

\* the trimmed text of a <title> element t of the document, leaving out what
\* unwanted elements below t hold
TrimmedTitleText(t) ==
    LET below == [els |-> doc,
                  live |-> {i \in 1..Len(doc) :
                              ~\E a \in 1..Len(doc) :
                                  /\ a # t /\ doc[a].tag \in UNWANTED
                                  /\ IsInside(doc, a, t) /\ IsInside(doc, i, a)}]
    IN Strip(GetText(below, t))

\* C5: a document with a <title> element, wherever it sits, yields that
\* element's trimmed text as title; a document without one yields
\* "No title found".
C5_TitleWhereverItSits ==
    page # None =>
        IF TitleElements # {}
        THEN \E t \in TitleElements : page[1].title = TrimmedTitleText(t)
        ELSE page[1].title = NO_TITLE

----------------------------------------------------------------------------
(* Claims about the summarizer, under SpecSummarize *)

\* C8: the content embedded in the prompt is the first 8000 characters of the
\* given content when that is longer than 8000 characters and the given
\* content otherwise; it is never longer than 8000 characters and is exactly
\* 8000 long whenever the input was longer.
C8_TruncatedToCap ==
    (prompt # None /\ prompt[1].ok) =>
        LET input == given.content
            embedded == prompt[1].value.content
        IN /\ Len(embedded) <= 8000
           /\ Len(input) > 8000 =>
                 /\ Len(embedded) = 8000
                 /\ \A i \in 1..8000 : embedded[i] = input[i]
           /\ Len(input) <= 8000 => embedded = input

\* a content of more than 8000 characters, its last kept and first dropped
\* characters different, has been cut
C8_Witness ==
    /\ prompt # None /\ prompt[1].ok
    /\ Len(given.content) > 8000
    /\ given.content[8000] # given.content[8001]
    /\ Len(prompt[1].value.content) = 8000

====
